---- MODULE Spec2Model ----
(***************************************************************************)
(* Model of main.py: the "Cari Harga" query pipeline of the new-car price  *)
(* lookup (extraction by an external model with a rule-based fallback,     *)
(* brand correction, two-stage search, price formatting, search log).      *)
(*                                                                         *)
(* A Python str is a sequence of one-character strings; Python's None is   *)
(* the value None below, which is no string of characters.                 *)
(***************************************************************************)
EXTENDS Integers, Sequences, FiniteSets, TLC

None == <<"None">>

\* ------------------------------------------------------------ str methods

Digits == <<"0", "1", "2", "3", "4", "5", "6", "7", "8", "9">>

InSeq(c, s) == \E i \in 1..Len(s) : s[i] = c

IndexOf(c, s) == CHOOSE i \in 1..Len(s) : s[i] = c

IsDigit(c) == InSeq(c, Digits)

LowerChar(c) ==
    CASE c = "A" -> "a" [] c = "B" -> "b" [] c = "C" -> "c" [] c = "D" -> "d"
      [] c = "E" -> "e" [] c = "F" -> "f" [] c = "G" -> "g" [] c = "H" -> "h"
      [] c = "I" -> "i" [] c = "J" -> "j" [] c = "K" -> "k" [] c = "L" -> "l"
      [] c = "M" -> "m" [] c = "N" -> "n" [] c = "O" -> "o" [] c = "P" -> "p"
      [] c = "Q" -> "q" [] c = "R" -> "r" [] c = "S" -> "s" [] c = "T" -> "t"
      [] c = "U" -> "u" [] c = "V" -> "v" [] c = "W" -> "w" [] c = "X" -> "x"
      [] c = "Y" -> "y" [] c = "Z" -> "z"
      [] OTHER -> c

UpperChar(c) ==
    CASE c = "a" -> "A" [] c = "b" -> "B" [] c = "c" -> "C" [] c = "d" -> "D"
      [] c = "e" -> "E" [] c = "f" -> "F" [] c = "g" -> "G" [] c = "h" -> "H"
      [] c = "i" -> "I" [] c = "j" -> "J" [] c = "k" -> "K" [] c = "l" -> "L"
      [] c = "m" -> "M" [] c = "n" -> "N" [] c = "o" -> "O" [] c = "p" -> "P"
      [] c = "q" -> "Q" [] c = "r" -> "R" [] c = "s" -> "S" [] c = "t" -> "T"
      [] c = "u" -> "U" [] c = "v" -> "V" [] c = "w" -> "W" [] c = "x" -> "X"
      [] c = "y" -> "Y" [] c = "z" -> "Z"
      [] OTHER -> c

\* a cased character is one that lower() or upper() changes
IsAlphaChar(c) == LowerChar(c) # c \/ UpperChar(c) # c

\* str.lower()
lower(s) == [i \in 1..Len(s) |-> LowerChar(s[i])]

\* str.title(): a letter that follows a non-letter is upper-cased, any other lower-cased
title(s) ==
    [i \in 1..Len(s) |->
        IF i = 1 \/ ~IsAlphaChar(s[i - 1]) THEN UpperChar(s[i]) ELSE LowerChar(s[i])]

\* str.strip(): spaces removed at both ends
strip(s) ==
    LET idx == {i \in 1..Len(s) : s[i] # " "}
    IN  IF idx = {} THEN <<>>
        ELSE SubSeq(s, CHOOSE i \in idx : \A j \in idx : i <= j,
                       CHOOSE i \in idx : \A j \in idx : j <= i)

\* Python's `sub in s`
Contains(sub, s) ==
    \E i \in 0..(Len(s) - Len(sub)) : SubSeq(s, i + 1, i + Len(sub)) = sub

\* str.split(): the maximal runs of non-space characters, in order
RECURSIVE split(_)
split(s) ==
    IF s = <<>> THEN <<>>
    ELSE IF Head(s) = " " THEN split(Tail(s))
    ELSE LET stops == {i \in 1..Len(s) : s[i] = " "}
             n == IF stops = {} THEN Len(s)
                  ELSE (CHOOSE i \in stops : \A j \in stops : i <= j) - 1
         IN  <<SubSeq(s, 1, n)>> \o split(SubSeq(s, n + 1, Len(s)))

\* str.replace(old, new) for single characters
replace(s, old, new) == [i \in 1..Len(s) |-> IF s[i] = old THEN new ELSE s[i]]

\* str(n) of a non-negative int
RECURSIVE str(_)
str(n) == IF n < 10 THEN <<Digits[n + 1]>> ELSE str(n \div 10) \o <<Digits[(n % 10) + 1]>>

\* Series.unique(): the distinct values in order of first appearance
RECURSIVE unique(_)
unique(s) ==
    IF s = <<>> THEN <<>>
    ELSE LET init == unique(SubSeq(s, 1, Len(s) - 1))
             x == s[Len(s)]
         IN  IF InSeq(x, init) THEN init ELSE Append(init, x)

\* Series.str.lower()
lower_all(col) == [i \in 1..Len(col) |-> lower(col[i])]

\* Python's truth value of an optional str: None and "" are false
Truthy(x) == x # None /\ x # <<>>

\* ------------------------------------------------------- regular expressions

\* Series.str.contains(pat) has regex=True by default: pat is compiled by re and
\* searched in each value. Of re's syntax the patterns here use "." (any
\* character) and "(" ")" (a group, which matches what its content matches);
\* every other character of them is a literal.
re_compile(pat) == SelectSeq(pat, LAMBDA c : c \notin {"(", ")"})

re_search(pat, s) ==
    LET p == re_compile(pat)
    IN  \E i \in 0..(Len(s) - Len(p)) :
            \A j \in 1..Len(p) : p[j] = "." \/ p[j] = s[i + j]

str_contains(s, pat) == re_search(pat, s)

\* ----------------------------------------------------------- the program

\* The four fields every extraction step passes on
Fields(b, t, y, x) == [brand |-> b, tipe |-> t, tahun |-> y, transmisi |-> x]

NoFields == Fields(None, None, None, None)

Column(df, col) == [i \in 1..Len(df) |-> df[i][col]]

\* dict.get(key): None for a missing key
Get(d, key) == IF key \in DOMAIN d THEN d[key] ELSE None

\* extract_params: the completion service's answer resp is
\*   kind "service_error"  create() raised,
\*   kind "unparseable"    ast.literal_eval raised,
\*   kind "not_dict"       the literal is no dict, so d.get raised,
\*   kind "dict"           the literal is the dict resp.d;
\* every exception is caught and gives four None.
extract_params(resp) ==
    IF resp.kind = "dict"
    THEN Fields(Get(resp.d, "brand"), Get(resp.d, "tipe"),
                Get(resp.d, "tahun"), Get(resp.d, "transmisi"))
    ELSE NoFields

\* re.search(r"(20\d{2})", text): the leftmost match, or None
year_match(text) ==
    LET hits == {i \in 1..(Len(text) - 3) :
                    /\ text[i] = "2" /\ text[i + 1] = "0"
                    /\ IsDigit(text[i + 2]) /\ IsDigit(text[i + 3])}
    IN  IF hits = {} THEN None
        ELSE LET i == CHOOSE h \in hits : \A g \in hits : h <= g
             IN  SubSeq(text, i, i + 3)

\* the element of seq at the least index of idx, or None when idx is empty:
\* what a for loop that breaks at its first hit leaves behind
FirstAt(seq, idx) ==
    IF idx = {} THEN None ELSE seq[CHOOSE i \in idx : \A j \in idx : i <= j]

\* lines 77-82
detect_transmisi(text) ==
    IF \E k \in {<<"a", "t">>, <<"a", "u", "t", "o">>, <<"m", "a", "t", "i", "c">>} : Contains(k, text) THEN <<"A", "T">>
    ELSE IF \E k \in {<<"m", "t">>, <<"m", "a", "n", "u", "a", "l">>} : Contains(k, text) THEN <<"M", "T">>
    ELSE None

\* lines 84-88
find_brand(text, df) ==
    LET brands == unique(lower_all(Column(df, "merk")))
    IN  FirstAt(brands, {i \in 1..Len(brands) : Contains(brands[i], text)})

\* lines 90-94
find_tipe(text, df) ==
    LET types == unique(lower_all(Column(df, "tipe_match")))
        words == split(text)
    IN  FirstAt(types, {i \in 1..Len(types) :
                           \E w \in 1..Len(words) : Contains(words[w], types[i])})

fallback_extract(input_text, df) ==
    LET text == lower(input_text)
    IN  Fields(find_brand(text, df), find_tipe(text, df),
               year_match(text), detect_transmisi(text))

\* --------------------------------------------------------------- amounts

\* A number of rupiah with one decimal digit: <<w, t>> is w + t/10. The
\* spreadsheet's amounts are whole (<<w, 0>>) or null (None); the decimal digit
\* is what otr_avg * 1.10 adds.
Num(w, t) == <<w, t>>

Million == 1000000

\* value * 1.10. The product is a binary float: where it falls exactly between
\* two integers of millions the float's last bit decides the rounding, so the
\* amounts used below keep off those ties.
times_1_10(value) ==
    IF value = None THEN None
    ELSE Num(value[1] + (value[1] \div 10), value[1] % 10)

\* round_juta cutting the fraction off
round_juta_truncating(value) == value[1] \div 1000000

\* the integer that ",.0f" prints for value / 1_000_000: the nearest one, the
\* even one of the two when value is exactly half-way
round_juta(value) ==
    LET q == value[1] \div Million
        r == (value[1] % Million) * 10 + value[2]
        half == (Million \div 2) * 10
    IN  IF r < half THEN q
        ELSE IF r > half THEN q + 1
        ELSE IF q % 2 = 0 THEN q ELSE q + 1

\* three digits, zero-padded
Pad3(n) ==
    IF n < 10 THEN <<"0", "0">> \o str(n) ELSE IF n < 100 THEN <<"0">> \o str(n) ELSE str(n)

\* the "," of the format specification: groups of three digits from the right
RECURSIVE comma_format(_)
comma_format(n) ==
    IF n < 1000 THEN str(n)
    ELSE comma_format(n \div 1000) \o <<",">> \o Pad3(n % 1000)

format_rupiah(value) ==
    IF value = None \/ value = Num(0, 0) THEN <<"-">>
    ELSE replace(<<"R", "p", " ">> \o comma_format(round_juta(value)) \o <<" ", "j", "u", "t", "a">>, ",", ".")

\* ---------------------------------------------------------------- search

\* lines 134-139: the brand of the first record whose tipe_match matches tipe
auto_correct_brand(q, df) ==
    IF ~Truthy(q.tipe) THEN q
    ELSE LET df_tipe == SelectSeq(df, LAMBDA r :
                            str_contains(lower(r.tipe_match), lower(q.tipe)))
         IN  IF df_tipe = <<>> THEN q
             ELSE LET brand_correct == df_tipe[1].merk
                  IN  IF ~Truthy(q.brand) \/ lower(q.brand) # lower(brand_correct)
                      THEN [q EXCEPT !.brand = lower(brand_correct)]
                      ELSE q

\* needs_fallback without its test of tahun
needs_fallback_ignoring_tahun(q) == ~Truthy(q.brand) \/ ~Truthy(q.tipe)

\* line 130: the model's result is dropped when brand, tipe or tahun is missing
needs_fallback(q) == ~Truthy(q.brand) \/ ~Truthy(q.tipe) \/ ~Truthy(q.tahun)

\* lines 127-131: the fields handed to the brand correction
extract(user_input, resp, df) ==
    LET q == extract_params(resp)
    IN  IF needs_fallback(q) THEN fallback_extract(user_input, df) ELSE q

\* incomplete without its test of tahun
incomplete_ignoring_tahun(q) == ~Truthy(q.brand) \/ ~Truthy(q.tipe)

\* line 150
incomplete(q) == ~Truthy(q.brand) \/ ~Truthy(q.tipe) \/ ~Truthy(q.tahun)

\* lines 153-155
normalise(q) ==
    [q EXCEPT !.brand = lower(strip(q.brand)),
              !.tipe = lower(strip(q.tipe)),
              !.tahun = strip(q.tahun)]

\* lines 166-169
filter_alt(df, q) ==
    SelectSeq(df, LAMBDA r : /\ lower(r.merk) = q.brand
                             /\ str_contains(lower(r.tipe_match), q.tipe))

\* lines 158-162
filter_utama(df, q) ==
    SelectSeq(df, LAMBDA r : /\ lower(r.merk) = q.brand
                             /\ str_contains(lower(r.tipe_match), q.tipe)
                             /\ str(r.tahun) = q.tahun)

\* s < t in Python's order of str (digits compare as their values do)
RECURSIVE str_less(_, _)
str_less(s, t) ==
    IF t = <<>> THEN FALSE
    ELSE IF s = <<>> THEN TRUE
    ELSE IF Head(s) = Head(t) THEN str_less(Tail(s), Tail(t))
    ELSE IndexOf(Head(s), Digits) < IndexOf(Head(t), Digits)

\* sorted() of distinct strings
RECURSIVE sorted(_)
sorted(s) ==
    IF s = <<>> THEN <<>>
    ELSE LET i == CHOOSE k \in 1..Len(s) : \A j \in 1..Len(s) : ~str_less(s[j], s[k])
         IN  <<s[i]>> \o sorted(SubSeq(s, 1, i - 1) \o SubSeq(s, i + 1, Len(s)))

\* line 172
years_of(df_alt) ==
    sorted(unique([i \in 1..Len(df_alt) |-> str(df_alt[i].tahun)]))

\* lines 186-189: a record that is neither automatic nor manual keeps no label
tipe_label(r) ==
    IF lower(r.transmisi) = <<"a", "u", "t", "o", "m", "a", "t", "i", "c">> THEN title(r.tipe_match) \o <<" ", "A", "/", "T">>
    ELSE IF lower(r.transmisi) = <<"m", "a", "n", "u", "a", "l">> THEN title(r.tipe_match) \o <<" ", "M", "/", "T">>
    ELSE None

\* filter_transmisi comparing with the lower-case codes, which no query carries
filter_transmisi_lower_case(df_filtered, transmisi) ==
    IF transmisi = <<"a", "t">>
    THEN SelectSeq(df_filtered, LAMBDA r : lower(r.transmisi) = <<"a", "u", "t", "o", "m", "a", "t", "i", "c">>)
    ELSE IF transmisi = <<"m", "t">>
    THEN SelectSeq(df_filtered, LAMBDA r : lower(r.transmisi) = <<"m", "a", "n", "u", "a", "l">>)
    ELSE df_filtered

\* lines 192-195
filter_transmisi(df_filtered, transmisi) ==
    IF transmisi = <<"A", "T">>
    THEN SelectSeq(df_filtered, LAMBDA r : lower(r.transmisi) = <<"a", "u", "t", "o", "m", "a", "t", "i", "c">>)
    ELSE IF transmisi = <<"M", "T">>
    THEN SelectSeq(df_filtered, LAMBDA r : lower(r.transmisi) = <<"m", "a", "n", "u", "a", "l">>)
    ELSE df_filtered

\* lines 198-206: the display row of a record
display_row(r) ==
    [Tipe |-> tipe_label(r),
     Min |-> format_rupiah(r.otr_min),
     Average |-> format_rupiah(r.otr_avg),
     Max |-> format_rupiah(times_1_10(r.otr_avg)),
     HargaBaru |-> format_rupiah(r.otr_vm)]

\* lines 206-211: DataFrame.drop_duplicates() keeps the first of equal rows
result_rows(df_filtered) ==
    unique([i \in 1..Len(df_filtered) |-> display_row(df_filtered[i])])

\* log_search: the record appended to search_log.csv (the timestamp left out)
log_entry(user_input, q, hasil_ditemukan) ==
    [user_input |-> user_input, brand |-> q.brand, tipe |-> q.tipe,
     tahun |-> q.tahun, transmisi |-> q.transmisi,
     hasil_ditemukan |-> hasil_ditemukan]

\* ---------------------------------------------------------------- handler

\* tahun_tidak_ditemukan testing the rows left by the transmission filter
tahun_tidak_ditemukan_after_transmisi(df_filtered, q) ==
    SelectSeq(df_filtered, LAMBDA r :
        \/ q.transmisi \notin {<<"A", "T">>, <<"M", "T">>}
        \/ q.transmisi = <<"A", "T">> /\ lower(r.transmisi) = <<"a", "u", "t", "o", "m", "a", "t", "i", "c">>
        \/ q.transmisi = <<"M", "T">> /\ lower(r.transmisi) = <<"m", "a", "n", "u", "a", "l">>) = <<>>

\* line 165: the main filter left nothing
tahun_tidak_ditemukan(df_filtered, q) == df_filtered = <<>>

\* The handler's else branch (lines 126-219) on a text, the completion service
\* answering resp: every variable it leaves behind, and the records it appends
\* to the log.
cari_harga(text, resp, data) ==
    LET h == extract(text, resp, data)
        c == auto_correct_brand(h, data)
        base == [handed |-> h, corrected |-> c, query |-> NoFields, evaluated |-> {},
                 outcome |-> "Incomplete", df_filtered |-> <<>>, tahun_tersedia |-> <<>>,
                 result_df |-> <<>>, logged |-> <<>>]
    IN  IF incomplete(c) THEN base
        ELSE LET q == normalise(c)
                 utama == filter_utama(data, q)
             IN  IF tahun_tidak_ditemukan(utama, q)
                 THEN LET df_alt == filter_alt(data, q)
                      IN  [base EXCEPT
                             !.query = q,
                             !.evaluated = {"utama", "alt"},
                             !.outcome = IF df_alt # <<>> THEN "PartialMatch" ELSE "NotFound",
                             !.df_filtered = utama,
                             !.tahun_tersedia = IF df_alt # <<>> THEN years_of(df_alt) ELSE <<>>,
                             !.logged = <<log_entry(text, q, 0)>>]
                 ELSE LET rows == result_rows(filter_transmisi(utama, q.transmisi))
                      IN  [base EXCEPT
                             !.query = q,
                             !.evaluated = {"utama"},
                             !.outcome = "Found",
                             !.df_filtered = utama,
                             !.result_df = rows,
                             !.logged = <<log_entry(text, q, Len(rows))>>]

\* ---------------------------------------------------------------- inputs

Row(merk, tipe_match, tahun, transmisi, otr_min, otr_avg, otr_vm) ==
    [merk |-> merk, tipe_match |-> tipe_match, tahun |-> tahun,
     transmisi |-> transmisi, otr_min |-> Num(otr_min, 0),
     otr_avg |-> Num(otr_avg, 0), otr_vm |-> Num(otr_vm, 0)]

\* The rows a spreadsheet is made of. "AVANZA 113 E" is matched by the pattern
\* "avanza 1.3 e" without containing it; "RAIZE (TT)" contains the pattern
\* "raize (tt)" without being matched by it.
RowPool ==
    { Row(<<"T", "O", "Y", "O", "T", "A">>, <<"A", "V", "A", "N", "Z", "A", " ", "1", ".", "3", " ", "E">>, 2020, <<"A", "u", "t", "o", "m", "a", "t", "i", "c">>, 200000000, 220000000, 230000000),
      Row(<<"T", "O", "Y", "O", "T", "A">>, <<"A", "v", "a", "n", "z", "a", " ", "1", ".", "3", " ", "E">>, 2020, <<"m", "a", "n", "u", "a", "l">>, 190000000, 210000000, 0),
      Row(<<"D", "A", "I", "H", "A", "T", "S", "U">>, <<"A", "V", "A", "N", "Z", "A", " ", "1", "1", "3", " ", "E">>, 2019, <<"M", "a", "n", "u", "a", "l">>, 150000000, 160000000, 165000000),
      Row(<<"T", "O", "Y", "O", "T", "A">>, <<"A", "V", "A", "N", "Z", "A", " ", "V", "E", "L", "O", "Z">>, 2021, <<"M", "a", "n", "u", "a", "l">>, 280000000, 290400000, 295000000),
      Row(<<"T", "O", "Y", "O", "T", "A">>, <<"R", "A", "I", "Z", "E", " ", "(", "T", "T", ")">>, 2020, <<"A", "u", "t", "o", "m", "a", "t", "i", "c">>, 240000000, 250000000, 255000000) }

MaxRows == 2

\* The spreadsheets: every sequence of one to MaxRows rows of the pool
Datasets == UNION {[1..n -> RowPool] : n \in 1..MaxRows}

\* What the user types
Texts ==
    { <<"a", "v", "a", "n", "z", "a", " ", "v", "e", "l", "o", "z", " ", "2", "0", "2", "1">>,
      <<"t", "o", "y", "o", "t", "a", " ", "a", "v", "a", "n", "z", "a">>,
      <<"T", "o", "y", "o", "t", "a", " ", "R", "a", "i", "z", "e", " ", "2", "0", "2", "0", " ", "m", "a", "t", "i", "c">> }

Blank == <<" ", " ">>

Answer(d) == [kind |-> "dict", d |-> d]

\* Answers of the completion service that lack brand, tipe or tahun
Failing ==
    { [kind |-> "service_error", d |-> [x \in {} |-> None]],
      Answer([brand |-> <<"T", "o", "y", "o", "t", "a">>, tipe |-> <<"A", "v", "a", "n", "z", "a">>, transmisi |-> <<"M", "T">>]),
      Answer([brand |-> <<>>, tipe |-> <<"a", "v", "a", "n", "z", "a", " ", "1", ".", "3", " ", "e">>, tahun |-> <<"2", "0", "2", "0">>, transmisi |-> <<"A", "T">>]),
      Answer([brand |-> <<"t", "o", "y", "o", "t", "a">>, tipe |-> None, tahun |-> <<"2", "0", "2", "1">>, transmisi |-> None]) }

\* An answer that is no Python literal
Unparseable == [kind |-> "unparseable", d |-> [x \in {} |-> None]]

\* Answers that have all three
Complete ==
    { Answer([brand |-> <<"T", "o", "y", "o", "t", "a">>, tipe |-> <<"A", "v", "a", "n", "z", "a", " ", "1", ".", "3", " ", "E">>, tahun |-> <<"2", "0", "2", "0">>, transmisi |-> <<"A", "T">>]),
      Answer([brand |-> <<"t", "o", "y", "o", "t", "a">>, tipe |-> <<"a", "v", "a", "n", "z", "a", " ", "1", ".", "3", " ", "e">>, tahun |-> <<"2", "0", "2", "0">>, transmisi |-> <<"M", "T">>]),
      Answer([brand |-> <<"H", "o", "n", "d", "a">>, tipe |-> <<"a", "v", "a", "n", "z", "a">>, tahun |-> <<"2", "0", "2", "2">>, transmisi |-> None]),
      Answer([brand |-> <<"t", "o", "y", "o", "t", "a">>, tipe |-> <<" ", "V", "e", "l", "o", "z", " ">>, tahun |-> <<" ", "2", "0", "2", "1">>, transmisi |-> <<"m", "a", "n", "u", "a", "l">>]),
      Answer([brand |-> <<"t", "o", "y", "o", "t", "a">>, tipe |-> <<"r", "a", "i", "z", "e", " ", "(", "t", "t", ")">>, tahun |-> <<"2", "0", "2", "0">>, transmisi |-> None]),
      Answer([brand |-> <<"T", "o", "y", "o", "t", "a">>, tipe |-> <<"b", "r", "i", "o">>, tahun |-> <<"2", "0", "2", "0">>, transmisi |-> <<"M", "T">>]) }

\* The queries: every text with every failing answer, where the rule-based
\* extractor reads the text, and one text with every complete answer, where
\* nothing reads it, and with an answer that does not parse
Queries ==
    {[text |-> t, resp |-> r] : t \in Texts, r \in Failing}
        \cup {[text |-> <<"r", "u", "s", "h", " ", "2", "0", "2", "4", " ", "m", "a", "n", "u", "a", "l">>, resp |-> r] : r \in Complete \cup {Unparseable}}

MaxClicks == 2

\* The amounts format_rupiah is tried on: around every rounding boundary of a
\* few numbers of millions, with and without a thousands separator
Amounts ==
    {Num(m * Million + f, 0) :
        m \in {0, 1, 2, 219, 220, 999, 1000, 1234},
        f \in {0, 1, 499999, 500000, 500001, 999999}} \cup {None}

\* ----------------------------------------------------------- state machine

Unset == <<"unset">>

NoAnswer == [kind |-> "none", d |-> [x \in {} |-> None]]

VARIABLES
    df,             \* the spreadsheet, loaded once
    log,            \* search_log.csv
    clicks,         \* how often "Cari Harga" was pressed
    queries,        \* how many of the presses carried a query
    user_input,     \* the last press's text
    gpt,            \* the completion service's answer to it
    handed,         \* the fields handed to the brand correction
    corrected,      \* the fields after it
    query,          \* and normalised, once validated
    evaluated,      \* which filters the handler evaluated
    outcome,        \* what the user is shown
    df_filtered,    \* the rows that passed the main filter
    tahun_tersedia, \* the years listed in the warning
    result_df,      \* the table shown
    amount,         \* an amount of the spreadsheet
    value,          \* format_rupiah's argument
    shown           \* and its result

vars == <<df, log, clicks, queries, user_input, gpt, handed, corrected, query, evaluated,
          outcome, df_filtered, tahun_tersedia, result_df, amount, value, shown>>

pipeline == <<df, log, clicks, queries, user_input, gpt, handed, corrected, query,
              evaluated, outcome, df_filtered, tahun_tersedia, result_df>>

Idle ==
    /\ log = <<>> /\ clicks = 0 /\ queries = 0
    /\ user_input = None /\ gpt = NoAnswer /\ handed = NoFields /\ corrected = NoFields
    /\ query = NoFields /\ evaluated = {} /\ outcome = "Idle" /\ df_filtered = <<>>
    /\ tahun_tersedia = <<>> /\ result_df = <<>>

Init ==
    /\ df \in Datasets
    /\ Idle
    /\ amount = None /\ value = Unset /\ shown = Unset

\* "Cari Harga" pressed on a blank text (lines 123-124): a warning, nothing else
CariHargaKosong(text) ==
    /\ clicks < MaxClicks
    /\ strip(text) = <<>>
    /\ clicks' = clicks + 1
    /\ user_input' = text
    /\ outcome' = "Warning"
    /\ gpt' = NoAnswer /\ handed' = NoFields /\ corrected' = NoFields /\ query' = NoFields
    /\ evaluated' = {} /\ df_filtered' = <<>> /\ tahun_tersedia' = <<>> /\ result_df' = <<>>
    /\ UNCHANGED <<df, log, queries, amount, value, shown>>

\* "Cari Harga" pressed on a text, the completion service answering resp
CariHarga(text, resp) ==
    /\ clicks < MaxClicks
    /\ strip(text) # <<>>
    /\ clicks' = clicks + 1
    /\ queries' = queries + 1
    /\ \E a \in {cari_harga(text, resp, df)} :
           /\ user_input' = text
           /\ gpt' = resp
           /\ handed' = a.handed
           /\ corrected' = a.corrected
           /\ query' = a.query
           /\ evaluated' = a.evaluated
           /\ outcome' = a.outcome
           /\ df_filtered' = a.df_filtered
           /\ tahun_tersedia' = a.tahun_tersedia
           /\ result_df' = a.result_df
           /\ log' = log \o a.logged
    /\ UNCHANGED <<df, amount, value, shown>>

Next ==
    \/ CariHargaKosong(Blank)
    \/ \E q \in Queries : CariHarga(q.text, q.resp)

Spec == Init /\ [][Next]_vars

\* ------------------------------------------- format_rupiah on its own

InitRupiah ==
    /\ df = <<>>
    /\ Idle
    /\ amount \in Amounts
    /\ value = Unset /\ shown = Unset

\* lines 201, 202, 204: a column of the spreadsheet is formatted as it is
Column_apply ==
    /\ value = Unset
    /\ value' = amount
    /\ UNCHANGED <<pipeline, amount, shown>>

\* lines 198, 203: max_calc is otr_avg * 1.10. That product is a binary float;
\* where it falls exactly half-way between two numbers of millions the float's
\* last bit decides the rounding, and those amounts are left out.
Max_calc ==
    /\ value = Unset
    /\ amount # None
    /\ (amount[1] + (amount[1] \div 10)) % Million # Million \div 2 \/ amount[1] % 10 # 0
    /\ value' = times_1_10(amount)
    /\ UNCHANGED <<pipeline, amount, shown>>

Format_rupiah ==
    /\ value # Unset
    /\ shown = Unset
    /\ shown' = format_rupiah(value)
    /\ UNCHANGED <<pipeline, amount, value>>

NextRupiah == Column_apply \/ Max_calc \/ Format_rupiah

SpecRupiah == InitRupiah /\ [][NextRupiah]_vars

\* ----------------------------------------------------------------- claims

\* the last press carried a query and the handler answered it
Processed == outcome \in {"Incomplete", "Found", "PartialMatch", "NotFound"}

Absent(x) == x = None \/ x = <<>>

\* the completion service failed, or its answer lacks brand, tipe or tahun
ModelLacks ==
    \/ gpt.kind # "dict"
    \/ \E k \in {"brand", "tipe", "tahun"} : k \notin DOMAIN gpt.d \/ Absent(gpt.d[k])

LastLog == log[Len(log)]

EndsWith(s, suffix) ==
    Len(s) >= Len(suffix) /\ SubSeq(s, Len(s) - Len(suffix) + 1, Len(s)) = suffix

Range(s) == {s[i] : i \in 1..Len(s)}

\* the rows of the spreadsheet that pass the main filter of the query
ExactStage ==
    {i \in 1..Len(df) :
        /\ lower(df[i].merk) = query.brand
        /\ str_contains(lower(df[i].tipe_match), query.tipe)
        /\ str(df[i].tahun) = query.tahun}

\* C1: when the completion service fails or its answer lacks brand, tipe or
\* tahun, the four fields handed to the brand correction are those of the
\* rule-based extractor for the same text and spreadsheet, none of the model's
\* is kept, and a failure of the service leaves a query answered like any
\* other.
C1_FallbackDeterminism ==
    /\ (Processed /\ ModelLacks) => handed = fallback_extract(user_input, df)
    /\ gpt.kind \in {"service_error", "unparseable", "not_dict"} => Processed

\* C1's case: the answer lacks only tahun and carries a transmission that the
\* rule-based extractor does not find; the query is answered with a table.
C1_Witness ==
    /\ outcome = "Found"
    /\ gpt.kind = "dict"
    /\ DOMAIN gpt.d = {"brand", "tipe", "transmisi"}
    /\ gpt.d.transmisi = <<"M", "T">>
    /\ handed.transmisi = None

\* C2: every completed query appends one record to the log, whatever its
\* outcome, Incomplete included: the log holds as many records as queries were
\* answered, and after an Incomplete query the last one is that query's, with
\* result count 0.
C2_OneRecordPerQuery ==
    /\ Len(log) = queries
    /\ outcome = "Incomplete" =>
          /\ log # <<>>
          /\ LastLog.user_input = user_input
          /\ LastLog.hasil_ditemukan = 0

\* C3: when brand, tipe or tahun is absent after the brand correction the
\* outcome is Incomplete and no filter is evaluated; a filter is evaluated only
\* when all three are there, and then the outcome is not Incomplete, whatever
\* the transmission.
C3_IncompleteWithoutSearch ==
    Processed =>
        LET missing == \E k \in {"brand", "tipe", "tahun"} : Absent(corrected[k])
        IN  /\ missing => outcome = "Incomplete" /\ evaluated = {}
            /\ ~missing => outcome # "Incomplete" /\ "utama" \in evaluated

\* C3's case: brand and tipe are there and tahun is not.
C3_Witness ==
    /\ outcome = "Incomplete"
    /\ ~Absent(corrected.brand) /\ ~Absent(corrected.tipe) /\ corrected.tahun = None
    /\ evaluated = {}

\* C4: the outcome of a complete query is Found if a row has the query's brand,
\* a tipe_match that contains the query's tipe as a substring and the query's
\* year; else PartialMatch if a row has the brand and contains the tipe, the
\* years listed being the distinct years of those rows in ascending order;
\* else NotFound.
C4_SearchOrder ==
    (Processed /\ outcome # "Incomplete") =>
        LET relaxed == {i \in 1..Len(df) :
                           /\ lower(df[i].merk) = query.brand
                           /\ Contains(query.tipe, lower(df[i].tipe_match))}
            exact == {i \in relaxed : str(df[i].tahun) = query.tahun}
            years == {str(df[i].tahun) : i \in relaxed}
        IN  /\ outcome = IF exact # {} THEN "Found"
                         ELSE IF relaxed # {} THEN "PartialMatch" ELSE "NotFound"
            /\ outcome = "PartialMatch" =>
                  /\ Range(tahun_tersedia) = years
                  /\ Len(tahun_tersedia) = Cardinality(years)
                  /\ \A i \in 1..(Len(tahun_tersedia) - 1) :
                         str_less(tahun_tersedia[i], tahun_tersedia[i + 1])

\* the alphabetic words of a text
AlphaWords(text) ==
    SelectSeq(split(text), LAMBDA w : \A i \in 1..Len(w) : IsAlphaChar(w[i]))

\* the type the two passes of C5 choose
TwoPassTipe(text, data) ==
    LET types == unique(lower_all(Column(data, "tipe_match")))
        words == AlphaWords(lower(text))
        strict == {i \in 1..Len(types) :
                      \A w \in 1..Len(words) : Contains(words[w], types[i])}
        loose == {i \in 1..Len(types) :
                     \E w \in 1..Len(words) : Contains(words[w], types[i])}
    IN  IF strict # {} THEN FirstAt(types, strict) ELSE FirstAt(types, loose)

\* C5: the rule-based extractor returns the first type that contains every
\* alphabetic word of the text and, only when there is none, the first type
\* that contains any alphabetic word.
C5_TwoPassType ==
    (Processed /\ ModelLacks) => handed.tipe = TwoPassTipe(user_input, df)

\* C6: after the brand correction, when a tipe was identified and a row's
\* tipe_match contains it as a substring, the brand is that of the first such
\* row, case aside; otherwise the brand is as extraction left it. Tipe, tahun
\* and transmisi are not changed.
C6_BrandCorrection ==
    Processed =>
        LET rows == IF Absent(handed.tipe) THEN {}
                    ELSE {i \in 1..Len(df) :
                             Contains(lower(handed.tipe), lower(df[i].tipe_match))}
        IN  /\ IF rows # {}
               THEN /\ ~Absent(corrected.brand)
                    /\ lower(corrected.brand) =
                          lower(df[CHOOSE i \in rows : \A j \in rows : i <= j].merk)
               ELSE corrected.brand = handed.brand
            /\ corrected.tipe = handed.tipe
            /\ corrected.tahun = handed.tahun
            /\ corrected.transmisi = handed.transmisi

\* C7: in a Found outcome under constraint AT (MT) the rows shown are those of
\* the rows that pass the main filter and are automatic (manual), every one of
\* them is shown, and every label ends in " A/T" (" M/T"); under no constraint
\* every row that passes the main filter is shown.
C7_TransmissionFilter ==
    outcome = "Found" =>
        LET kept == {i \in ExactStage :
                        /\ query.transmisi = <<"A", "T">> => lower(df[i].transmisi) = <<"a", "u", "t", "o", "m", "a", "t", "i", "c">>
                        /\ query.transmisi = <<"M", "T">> => lower(df[i].transmisi) = <<"m", "a", "n", "u", "a", "l">>}
        IN  /\ Range(result_df) = {display_row(df[i]) : i \in kept}
            /\ query.transmisi = <<"A", "T">> =>
                  \A i \in 1..Len(result_df) : EndsWith(result_df[i].Tipe, <<" ", "A", "/", "T">>)
            /\ query.transmisi = <<"M", "T">> =>
                  \A i \in 1..Len(result_df) : EndsWith(result_df[i].Tipe, <<" ", "M", "/", "T">>)

\* C7's case: an automatic and a manual row pass the main filter and the
\* constraint MT leaves the manual one.
C7_Witness ==
    /\ outcome = "Found"
    /\ query.transmisi = <<"M", "T">>
    /\ Len(df_filtered) = 2
    /\ Len(result_df) = 1
    /\ EndsWith(result_df[1].Tipe, <<" ", "M", "/", "T">>)

\* the number a string of digits in groups of three, set off by ".", stands
\* for; -1 when the string is no such thing
RECURSIVE DottedValue(_)
DottedValue(s) ==
    LET n == Len(s)
        digit(i) == IndexOf(s[i], Digits) - 1
    IN  IF n = 0 \/ \E i \in 1..n : ~IsDigit(s[i]) /\ s[i] # "." THEN -1
        ELSE IF n <= 3
        THEN IF \E i \in 1..n : s[i] = "." THEN -1
             ELSE IF n > 1 /\ s[1] = "0" THEN -1
             ELSE IF n = 1 THEN digit(1)
             ELSE IF n = 2 THEN digit(1) * 10 + digit(2)
             ELSE digit(1) * 100 + digit(2) * 10 + digit(3)
        ELSE IF s[n - 3] # "." \/ \E i \in (n - 2)..n : ~IsDigit(s[i]) THEN -1
        ELSE LET high == DottedValue(SubSeq(s, 1, n - 4))
             IN  IF high <= 0 THEN -1
                 ELSE high * 1000 + digit(n - 2) * 100 + digit(n - 1) * 10 + digit(n)

\* C8: format_rupiah gives "-" for a null amount and for 0, and for a positive
\* amount "Rp N juta" with N the amount in millions rounded to a nearest
\* integer, written in groups of three digits set off by "."; for max_calc
\* of an otr_avg of 220000000 it gives "Rp 242 juta".
C8_FormatRupiah ==
    shown # Unset =>
        /\ (value = None \/ value = Num(0, 0)) => shown = <<"-">>
        /\ (value # None /\ value # Num(0, 0)) =>
              /\ Len(shown) > 8
              /\ SubSeq(shown, 1, 3) = <<"R", "p", " ">>
              /\ EndsWith(shown, <<" ", "j", "u", "t", "a">>)
              /\ LET N == DottedValue(SubSeq(shown, 4, Len(shown) - 5))
                     q == value[1] \div 1000000
                     r == (value[1] % 1000000) * 10 + value[2]
                 IN  \/ N = q /\ r <= 5000000
                     \/ N = q + 1 /\ r >= 5000000
        /\ (amount = Num(220000000, 0) /\ value # amount) => shown = <<"R", "p", " ", "2", "4", "2", " ", "j", "u", "t", "a">>

\* C8's case: max_calc of an otr_avg of 220000000 is shown.
C8_Witness ==
    /\ amount = Num(220000000, 0)
    /\ value = Num(242000000, 0)
    /\ shown = <<"R", "p", " ", "2", "4", "2", " ", "j", "u", "t", "a">>

\* C9: NotFound is reported only when no row's tipe_match contains the tipe of
\* the query, and never for a query whose fields come from the rule-based
\* extractor.
C9_NotFoundOnlyUnknownType ==
    (Processed /\ outcome = "NotFound") =>
        /\ \A i \in 1..Len(df) : ~Contains(lower(handed.tipe), lower(df[i].tipe_match))
        /\ ~ModelLacks

\* C10: the transmission constraint does not change the outcome's variant: the
\* outcome is Found exactly when a row passes the main filter, which does not
\* read the transmission, and PartialMatch or NotFound otherwise. The record
\* logged for a Found outcome counts the rows shown, which are distinct, also
\* when the constraint leaves none; the one logged otherwise counts 0.
C10_TransmissionKeepsOutcome ==
    (Processed /\ outcome # "Incomplete") =>
        /\ outcome = "Found" <=> ExactStage # {}
        /\ log # <<>>
        /\ LastLog.user_input = user_input
        /\ outcome = "Found" =>
              /\ LastLog.hasil_ditemukan = Len(result_df)
              /\ Cardinality(Range(result_df)) = Len(result_df)
        /\ outcome # "Found" => LastLog.hasil_ditemukan = 0 /\ result_df = <<>>

\* C10's case: rows pass the main filter, none has the transmission asked for,
\* and the outcome is Found with no row and a logged count of 0.
C10_Witness ==
    /\ outcome = "Found"
    /\ df_filtered # <<>>
    /\ query.transmisi \in {<<"A", "T">>, <<"M", "T">>}
    /\ result_df = <<>>
    /\ LastLog.hasil_ditemukan = 0

====
